---- MODULE Spec2Model ----
(***************************************************************************)
(* neo4j-ollama-agent: the JSON-RPC client of the MCP child process        *)
(* (mcp_client.py), the agent loop (ollama_agent.py) and the host program  *)
(* (main.py), as one state machine.                                        *)
(*                                                                         *)
(* Three specifications share the variables:                               *)
(*   Spec        the program: main() driving MCPClient and OllamaAgent,    *)
(*               with the child process and the Ollama endpoint as the     *)
(*               environment;                                              *)
(*   SpecClient  MCPClient driven through its public methods in any order  *)
(*               (start, call_tool, get_tools_schema, stop);               *)
(*   SpecParse   OllamaAgent._try_parse_tool_call applied to every text of *)
(*               a bounded set.                                            *)
(***************************************************************************)
EXTENDS Integers, Sequences, FiniteSets, TLC

(***************************************************************************)
(* Bounds of the model.                                                    *)
(***************************************************************************)
\* chat() is called with every ceiling 0..MaxIter (main passes
\* Config.MAX_ITERATIONS; the ceiling is a parameter of chat).
MaxIter == 2
\* at most MaxTurns chat() calls in one run of the program
MaxTurns == 2
\* the ceilings of the chat() calls of one run add up to at most MaxBudget
MaxBudget == 3
\* at most MaxApiCalls method calls in one run of SpecClient
MaxApiCalls == 4
\* SpecParse applies the extraction to every token text of length <= MaxLen
MaxLen == 4

(***************************************************************************)
(* Request ids.  _initialize writes the integers 1 and 2; call_tool writes *)
(* the name of the current asyncio task, a string.                         *)
(***************************************************************************)
IntId(n) == [isnum |-> TRUE, n |-> n, s |-> ""]
StrId(s) == [isnum |-> FALSE, n |-> 0, s |-> s]

\* asyncio.run(main()) runs main() as the first task of its loop, which
\* asyncio names "Task-1"; every chat() and call_tool() runs inside it.
CurrentTaskName == "Task-1"

\* "a is strictly below b": integers by value, an integer below every
\* name (the reading most favourable to monotonicity).  Names carry no
\* order of their own, so a name is never strictly below a name.
IdLess(a, b) ==
    \/ a.isnum /\ b.isnum /\ a.n < b.n
    \/ a.isnum /\ ~b.isnum

(***************************************************************************)
(* Model output as a sequence of tokens.  A key token is the quoted key    *)
(* with its colon; "w" is a word of prose; " " is whitespace.              *)
(***************************************************************************)
LB == "{"
RB == "}"
COMMA == ","
KT == "\"tool_name\":"
KA == "\"arguments\":"
SX == "\"x\""
WORD == "w"
WS == " "
Alphabet == {LB, RB, COMMA, KT, KA, SX, WORD, WS}

\* JSON values as json.loads builds them: a string, or a dict given as
\* the sequence of its (key, value) members in source order.
StrVal(s) == [type |-> "string", s |-> s, members |-> <<>>]
ObjVal(ms) == [type |-> "object", s |-> "", members |-> ms]
EmptyObj == ObjVal(<<>>)

\* dict lookups: a key written twice keeps its last value
HasKey(obj, k) == \E i \in 1..Len(obj.members) : obj.members[i][1] = k
GetKey(obj, k, default) ==
    IF HasKey(obj, k)
    THEN LET last == CHOOSE i \in 1..Len(obj.members) :
                        /\ obj.members[i][1] = k
                        /\ \A j \in (i+1)..Len(obj.members) : obj.members[j][1] # k
         IN obj.members[last][2]
    ELSE default

\* str.strip(): drop leading and trailing whitespace
RECURSIVE Strip(_)
Strip(t) ==
    IF t = <<>> THEN t
    ELSE IF Head(t) = WS THEN Strip(Tail(t))
    ELSE IF t[Len(t)] = WS THEN Strip(SubSeq(t, 1, Len(t) - 1))
    ELSE t

\* str.find / str.rfind, as 0-based indexes, -1 when absent
Find(t, c) ==
    IF \E i \in 1..Len(t) : t[i] = c
    THEN (CHOOSE i \in 1..Len(t) : t[i] = c /\ \A j \in 1..(i-1) : t[j] # c) - 1
    ELSE -1
RFindFirst(t, c) == Find(t, c)
RFind(t, c) ==
    IF \E i \in 1..Len(t) : t[i] = c
    THEN (CHOOSE i \in 1..Len(t) : t[i] = c /\ \A j \in (i+1)..Len(t) : t[j] # c) - 1
    ELSE -1

\* json.loads: recursive descent, whitespace skipped between tokens.
\* A result is [ok, val, next]: next is the 1-based position after the value.
ParseFail == [ok |-> FALSE, val |-> EmptyObj, next |-> 0]
RECURSIVE SkipWs(_, _)
SkipWs(t, i) == IF i <= Len(t) /\ t[i] = WS THEN SkipWs(t, i + 1) ELSE i

RECURSIVE ParseValue(_, _)
RECURSIVE ParseMembers(_, _, _)
ParseValue(t, i0) ==
    LET i == SkipWs(t, i0) IN
    IF i > Len(t) THEN ParseFail
    ELSE IF t[i] = SX THEN [ok |-> TRUE, val |-> StrVal("x"), next |-> i + 1]
    ELSE IF t[i] = LB THEN
        LET j == SkipWs(t, i + 1) IN
        IF j <= Len(t) /\ t[j] = RB
        THEN [ok |-> TRUE, val |-> EmptyObj, next |-> j + 1]
        ELSE ParseMembers(t, j, <<>>)
    ELSE ParseFail
ParseMembers(t, j0, acc) ==
    LET j == SkipWs(t, j0) IN
    IF j > Len(t) \/ t[j] \notin {KT, KA} THEN ParseFail
    ELSE
        LET key == IF t[j] = KT THEN "tool_name" ELSE "arguments"
            v == ParseValue(t, j + 1)
        IN
        IF ~v.ok THEN ParseFail
        ELSE
            LET k == SkipWs(t, v.next)
                acc2 == Append(acc, <<key, v.val>>)
            IN
            IF k > Len(t) THEN ParseFail
            ELSE IF t[k] = COMMA THEN ParseMembers(t, k + 1, acc2)
            ELSE IF t[k] = RB THEN [ok |-> TRUE, val |-> ObjVal(acc2), next |-> k + 1]
            ELSE ParseFail

\* json.loads(candidate): one value, then nothing but whitespace
JsonLoads(t) ==
    LET v == ParseValue(t, 1) IN
    IF v.ok /\ SkipWs(t, v.next) = Len(t) + 1 THEN v ELSE ParseFail

(***************************************************************************)
(* OllamaAgent._try_parse_tool_call.  The result is [none, obj]: none is   *)
(* TRUE for Python's None, obj is the dict returned otherwise.             *)
(***************************************************************************)
NoToolCall == [none |-> TRUE, obj |-> EmptyObj]
TryParseToolCall(text) ==
    LET stripped == Strip(text)
        start == Find(stripped, LB)
        end == RFind(stripped, RB)
    IN
    IF start = -1 \/ end = -1 \/ end <= start THEN NoToolCall
    ELSE
        LET candidate == SubSeq(stripped, start + 1, end + 1)
            loaded == JsonLoads(candidate)
        IN
        IF ~loaded.ok THEN NoToolCall
        ELSE IF loaded.val.type # "object" THEN NoToolCall
        ELSE IF ~HasKey(loaded.val, "tool_name") THEN NoToolCall
        ELSE IF GetKey(loaded.val, "arguments", EmptyObj).type # "object" THEN NoToolCall
        ELSE [none |-> FALSE, obj |-> loaded.val]

\* chat(), lines 170-171: the request read off the parsed dict
ToolName(call) == GetKey(call.obj, "tool_name", EmptyObj)
ToolArguments(call) == GetKey(call.obj, "arguments", EmptyObj)

(***************************************************************************)
(* State.                                                                  *)
(***************************************************************************)
VARIABLES
    mode,            \* "main", "api" or "parse": which specification runs
    pc,              \* position of the one thread of control
    exitCause,       \* why main() left its try block ("" while inside)
    turns,           \* chat() calls made so far
    budget,          \* sum of the ceilings of the chat() calls made so far
    apiCalls,        \* method calls made so far under SpecClient
    \* MCPClient
    process,         \* self.process: "None" or "Process"
    tools,           \* self.tools
    \* the child process and its pipes
    child,           \* "unspawned", "running" or "exited"
    stdin,           \* requests written and not yet answered by the child
    stdout,          \* response lines written by the child and not yet read
    \* OllamaAgent
    agent,           \* the agent has been constructed
    conversation_history,
    iteration,       \* chat(): local iteration
    max_iterations,  \* chat(): parameter
    response_text,   \* chat(): the text of the last gateway call
    tool_call,       \* chat(): _try_parse_tool_call(response_text)
    \* what a test double would observe
    issued,          \* ids of the requests written, in order
    terminateCalls,  \* calls of process.terminate()
    stopCalls,       \* calls of MCPClient.stop()
    stopped,         \* a stop() has terminated the child and waited for it
    initStatus,      \* "none", "ok": both round trips gave a result and the
                     \*   tool list was there, "failed": otherwise
    declared,        \* the tool list of the child's tools/list result
    lastOp,          \* the last MCPClient method that completed
    lastCatalog,     \* what get_tools_schema last returned
    gwCalls,         \* gateway calls of the current chat()
    toolCalls,       \* call_tool calls of the current chat()
    histStart,       \* Len(conversation_history) when the current chat() began
    prevResult,      \* how the chat() call before the current one ended
    messages,        \* chat(): the transcript built for the gateway call
    chatResult       \* "", "running", "final", "budget", "raised", "interrupted"

hostVars == <<mode, exitCause, turns, budget, apiCalls>>
clientVars == <<process, tools, initStatus, declared, lastCatalog>>
pipeVars == <<child, stdin, stdout>>
countVars == <<issued, terminateCalls, stopCalls, stopped>>
chatVars == <<iteration, max_iterations, response_text, tool_call,
              gwCalls, toolCalls, histStart, prevResult, messages,
              chatResult>>
agentVars == <<agent, conversation_history>>
vars == <<pc, hostVars, clientVars, pipeVars, countVars, chatVars, agentVars, lastOp>>

(***************************************************************************)
(* Values.                                                                 *)
(***************************************************************************)
\* tool descriptors a server may declare
ReadTool == [name |-> "read_neo4j_cypher", inputSchema |-> TRUE]
SchemaTool == [name |-> "get_neo4j_schema", inputSchema |-> FALSE]
ToolLists == {<<>>, <<ReadTool, SchemaTool>>}

\* an id no request of the client carries
WrongId == IntId(0)

\* A response line.  kind: "result", "error", "neither" (a JSON object with
\* neither field) or "garbage" (not JSON); req: the position in `issued` of
\* the request the child answered with it; hasTools/tools: the "tools" member
\* of a result.
NoLine == [id |-> WrongId, kind |-> "none", req |-> 0, hasTools |-> FALSE, tools |-> <<>>]
Line(id, kind, req, hasTools, tl) ==
    [id |-> id, kind |-> kind, req |-> req, hasTools |-> hasTools, tools |-> tl]
Kinds == {"result", "error", "neither", "garbage"}

\* a request on the wire
Request(id, method, seq) == [id |-> id, method |-> method, seq |-> seq]

\* the record of a completed MCPClient method
Op(op, outcome, exc, reqId, resp) ==
    [op |-> op, outcome |-> outcome, exc |-> exc, reqId |-> reqId, resp |-> resp]
NoOp == Op("none", "returned", "", WrongId, NoLine)

\* history entries: role, what the content is, and for a tool result or
\* error the exception and payload the content is formatted from
Entry(role, kind, exc, ref) == [role |-> role, kind |-> kind, exc |-> exc, ref |-> ref]
UserMessage == Entry("user", "message", "", 0)
Announcement == Entry("assistant", "tool_announce", "", 0)
ToolResult(ref) == Entry("user", "tool_result", "", ref)
ToolErrorEntry(exc, ref) == Entry("assistant", "tool_error", exc, ref)
FinalAnswer == Entry("assistant", "final", "", 0)

\* texts the gateway may return
ProseText == <<WORD, WS, WORD>>
CallWithArgs == <<WORD, WS, LB, KT, SX, COMMA, KA, LB, RB, RB>>
CallNoArgs == <<LB, KT, SX, RB, WS>>
CallBadArgs == <<LB, KT, SX, COMMA, KA, SX, RB>>
Truncated == <<LB, KT, SX>>
GatewayTexts == {ProseText, CallWithArgs, CallNoArgs, CallBadArgs, Truncated}

\* where a method returns to: the test under SpecClient, main() otherwise
Ret(p) == IF mode = "api" THEN "idle" ELSE p

\* main, lines 89-91: whatever leaves the try block runs mcp_client.stop()
FinallySkipped == "done"
Finally == "stop"

(***************************************************************************)
(* MCPClient.get_tools_schema                                              *)
(***************************************************************************)
SchemaOf(tool) ==
    [name |-> tool.name,
     properties |-> IF tool.inputSchema THEN "declared" ELSE "empty"]
GetToolsSchema(ts) == [i \in 1..Len(ts) |-> SchemaOf(ts[i])]

(***************************************************************************)
(* Initial states: MCPClient.__init__ has run, nothing else.               *)
(***************************************************************************)
InitState(m, p, text) ==
    /\ mode = m
    /\ pc = p
    /\ exitCause = ""
    /\ turns = 0
    /\ budget = 0
    /\ apiCalls = 0
    /\ process = "None"
    /\ tools = <<>>
    /\ child = "unspawned"
    /\ stdin = <<>>
    /\ stdout = <<>>
    /\ agent = FALSE
    /\ conversation_history = <<>>
    /\ iteration = 0
    /\ max_iterations = 0
    /\ response_text = text
    /\ tool_call = NoToolCall
    /\ issued = <<>>
    /\ terminateCalls = 0
    /\ stopCalls = 0
    /\ stopped = FALSE
    /\ initStatus = "none"
    /\ declared = <<>>
    /\ lastOp = NoOp
    /\ lastCatalog = <<>>
    /\ gwCalls = 0
    /\ toolCalls = 0
    /\ histStart = 0
    /\ prevResult = ""
    /\ messages = <<>>
    /\ chatResult = ""

Init == InitState("main", "start", <<>>)
InitClient == InitState("api", "idle", <<>>)

(***************************************************************************)
(* The child process (environment).                                        *)
(***************************************************************************)
\* The child answers the oldest unanswered request with one line.  What the
\* line holds is the child's choice.
ServerRespondWith(id, kind, hasTools, tl) ==
    /\ child = "running"
    /\ stdin # <<>>
    /\ stdout' = Append(stdout, Line(id, kind, Head(stdin).seq, hasTools, tl))
    /\ stdin' = Tail(stdin)
    /\ declared' = IF Head(stdin).method = "tools/list" /\ kind = "result" /\ hasTools
                   THEN tl ELSE declared
    /\ UNCHANGED <<pc, hostVars, process, tools, initStatus, lastCatalog, child,
                   countVars, chatVars, agentVars, lastOp>>

ServerRespond ==
    \E kind \in Kinds :
      \E id \in IF stdin = <<>> THEN {} ELSE {Head(stdin).id, WrongId} :
        IF kind = "result" /\ Head(stdin).method = "tools/list"
        THEN \/ \E tl \in ToolLists : ServerRespondWith(id, kind, TRUE, tl)
             \/ ServerRespondWith(id, kind, FALSE, <<>>)
        ELSE ServerRespondWith(id, kind, FALSE, <<>>)

\* The child exits on its own: requests it has not answered are lost, lines
\* it has written stay readable.
ServerExit ==
    /\ child = "running"
    /\ pc \notin {"wait", "done"}
    /\ child' = "exited"
    /\ stdin' = <<>>
    /\ UNCHANGED <<pc, hostVars, clientVars, stdout, countVars, chatVars, agentVars, lastOp>>

(***************************************************************************)
(* MCPClient._send_request and _receive_response                           *)
(***************************************************************************)
\* _send_request raises RuntimeError when there is no process
SendGuardFails == process = "None"

\* stdin.write + drain of one request, when the child can take it
PipeWrite(req) ==
    /\ child = "running"
    /\ stdin' = Append(stdin, req)

\* the same on a pipe whose reader is gone: the bytes are dropped
PipeWriteLost ==
    /\ child # "running"
    /\ stdin' = stdin

\* readline() has a line to return
LineReady == stdout # <<>>
\* readline() returns b"" (end of stream): _receive_response returns None
ReadBlocksAtEof == FALSE
AtEof == stdout = <<>> /\ child = "exited"

(***************************************************************************)
(* MCPClient.start and _initialize                                         *)
(***************************************************************************)
\* create_subprocess_exec succeeds
Spawn ==
    /\ pc = "start"
    /\ process' = "Process"
    /\ child' = "running"
    /\ pc' = "init_send1"
    /\ UNCHANGED <<hostVars, tools, initStatus, declared, lastCatalog, stdin, stdout,
                   countVars, chatVars, agentVars, lastOp>>

\* create_subprocess_exec raises (no such executable): start() raises
SpawnFails ==
    /\ pc = "start"
    /\ pc' = Ret(Finally)
    /\ exitCause' = IF mode = "main" THEN "start_raised" ELSE exitCause
    /\ lastOp' = Op("start", "raised", "FileNotFoundError", WrongId, NoLine)
    /\ UNCHANGED <<mode, turns, budget, apiCalls, clientVars, pipeVars,
                   countVars, chatVars, agentVars>>

\* an exception leaves start(): to the finally block of main, or to the test
StartRaises(exc) ==
    /\ pc' = Ret(Finally)
    /\ exitCause' = IF mode = "main" THEN "start_raised" ELSE exitCause
    /\ lastOp' = Op("start", "raised", exc, WrongId, NoLine)

\* _send_request(init_request) / _send_request(tools_request)
InitSend(k) ==
    /\ pc = IF k = 1 THEN "init_send1" ELSE "init_send2"
    /\ issued' = Append(issued, IntId(k))
    /\ \/ /\ PipeWrite(Request(IntId(k), IF k = 1 THEN "initialize" ELSE "tools/list",
                               Len(issued) + 1))
          /\ pc' = IF k = 1 THEN "init_recv1" ELSE "init_recv2"
          /\ UNCHANGED <<exitCause, lastOp>>
       \/ /\ PipeWriteLost
          /\ pc' = IF k = 1 THEN "init_recv1" ELSE "init_recv2"
          /\ UNCHANGED <<exitCause, lastOp>>
       \/ /\ PipeWriteLost
          /\ StartRaises("ConnectionResetError")
    /\ UNCHANGED <<mode, turns, budget, apiCalls, clientVars, child, stdout,
                   terminateCalls, stopCalls, stopped, chatVars, agentVars>>

\* await self._receive_response() after the handshake: the value is dropped
InitRecv1 ==
    /\ pc = "init_recv1"
    /\ \/ /\ LineReady
          /\ stdout' = Tail(stdout)
          /\ IF Head(stdout).kind = "garbage"
             THEN StartRaises("JSONDecodeError") /\ UNCHANGED initStatus
             ELSE /\ pc' = "init_send2"
                  /\ initStatus' = IF Head(stdout).kind = "result" THEN "none" ELSE "failed"
                  /\ UNCHANGED <<exitCause, lastOp>>
       \/ /\ AtEof
          /\ pc' = "init_send2"
          /\ initStatus' = "failed"
          /\ UNCHANGED <<stdout, exitCause, lastOp>>
    /\ UNCHANGED <<mode, turns, budget, apiCalls, process, tools, declared,
                   lastCatalog, child, stdin, countVars, chatVars, agentVars>>

\* response = await self._receive_response();
\* if response and "result" in response: self.tools = result.get("tools", [])
InitStoreFirstTool(line) ==
    IF line.kind = "result" /\ line.hasTools /\ line.tools # <<>>
    THEN <<Head(line.tools)>> ELSE <<>>
InitStoreTools(line) ==
    IF line.kind = "result" THEN (IF line.hasTools THEN line.tools ELSE <<>>) ELSE tools

InitRecv2 ==
    /\ pc = "init_recv2"
    /\ \/ /\ LineReady
          /\ stdout' = Tail(stdout)
          /\ IF Head(stdout).kind = "garbage"
             THEN StartRaises("JSONDecodeError") /\ UNCHANGED <<initStatus, tools>>
             ELSE /\ pc' = Ret("tools")
                  /\ tools' = InitStoreTools(Head(stdout))
                  /\ initStatus' =
                        IF initStatus = "none" /\ Head(stdout).kind = "result"
                           /\ Head(stdout).hasTools
                        THEN "ok" ELSE "failed"
                  /\ lastOp' = Op("start", "returned", "", IntId(2), Head(stdout))
                  /\ UNCHANGED exitCause
       \/ /\ AtEof
          /\ pc' = Ret("tools")
          /\ initStatus' = "failed"
          /\ lastOp' = Op("start", "returned", "", IntId(2), NoLine)
          /\ UNCHANGED <<stdout, exitCause, tools>>
    /\ UNCHANGED <<mode, turns, budget, apiCalls, process, declared, lastCatalog,
                   child, stdin, countVars, chatVars, agentVars>>

\* SIGINT while start() waits for a line: the main task is cancelled at its
\* await, CancelledError leaves the try block of main
InitCancelled ==
    /\ mode = "main"
    /\ pc \in {"init_recv1", "init_recv2"}
    /\ pc' = Finally
    /\ exitCause' = "cancelled"
    /\ lastOp' = Op("start", "raised", "CancelledError", WrongId, NoLine)
    /\ UNCHANGED <<mode, turns, budget, apiCalls, clientVars, pipeVars,
                   countVars, chatVars, agentVars>>

(***************************************************************************)
(* MCPClient.call_tool                                                     *)
(***************************************************************************)
\* task.get_name() of the current task: the id of every tools/call request
CallToolRequestId == StrId(CurrentTaskName)

\* tools/call requests written so far
ToolCallsIssued == Cardinality({i \in 1..Len(issued) : ~issued[i].isnum})

\* lines 129-134: what call_tool does with the parsed response
\* (NoLine stands for None, the response of an ended stream)
CallToolOutcome(line) ==
    IF line.kind = "result" THEN [outcome |-> "returned", exc |-> ""]
    ELSE IF line.kind = "error" THEN [outcome |-> "raised", exc |-> "ToolError"]
    ELSE [outcome |-> "returned", exc |-> ""]

\* The payload of a line is named by the request the child answered with
\* it; 0 stands for None.  What call_tool returns for a line: its result,
\* or None.
ResultOf(line) == IF line.kind = "result" THEN line.req ELSE 0
\* the payload of the error a line carries
ErrorOf(line) == IF line.kind = "error" THEN line.req ELSE 0

(***************************************************************************)
(* OllamaAgent.chat: what the loop does with the outcome of call_tool      *)
(***************************************************************************)
\* lines 188-199: the call returned
HistoryWithoutAnnouncement(h, line) == Append(h, ToolResult(ResultOf(line)))
HistoryAfterToolReturn(h, line) == h \o <<Announcement, ToolResult(ResultOf(line))>>
\* lines 204-211: the call raised an Exception
HistoryAfterToolRaise(h, exc, line) == Append(h, ToolErrorEntry(exc, ErrorOf(line)))
\* lines 202 and 212: continue
AfterToolReturn == "loop"
AfterToolRaiseEndsTurn == "prompt"
AfterToolRaise == "loop"

\* call_tool completes: to the test under SpecClient, into chat() otherwise.
\* With `continue` the locals of the iteration are dead: they are cleared.
CallToolDone(outcome, exc, line) ==
    /\ lastOp' = Op("call_tool", outcome, exc, CallToolRequestId, line)
    /\ IF mode = "api"
       THEN /\ pc' = "idle"
            /\ UNCHANGED <<conversation_history, response_text, tool_call>>
       ELSE /\ response_text' = <<>>
            /\ tool_call' = NoToolCall
            /\ IF outcome = "returned"
               THEN /\ conversation_history' =
                          HistoryAfterToolReturn(conversation_history, line)
                    /\ pc' = AfterToolReturn
               ELSE /\ conversation_history' =
                          HistoryAfterToolRaise(conversation_history, exc, line)
                    /\ pc' = AfterToolRaise

\* await self._send_request(request)
ToolSend ==
    /\ pc = "tool_send"
    /\ toolCalls' = IF mode = "main" THEN toolCalls + 1 ELSE toolCalls
    /\ \/ /\ SendGuardFails
          /\ CallToolDone("raised", "RuntimeError", NoLine)
          /\ UNCHANGED <<issued, stdin>>
       \/ /\ ~SendGuardFails
          /\ issued' = Append(issued, CallToolRequestId)
          /\ \/ /\ PipeWrite(Request(CallToolRequestId, "tools/call", Len(issued) + 1))
                /\ pc' = "tool_recv"
                /\ UNCHANGED <<lastOp, conversation_history, response_text, tool_call>>
             \/ /\ PipeWriteLost
                /\ pc' = "tool_recv"
                /\ UNCHANGED <<lastOp, conversation_history, response_text, tool_call>>
             \/ /\ PipeWriteLost
                /\ CallToolDone("raised", "ConnectionResetError", NoLine)
    /\ UNCHANGED <<hostVars, clientVars, child, stdout, terminateCalls, stopCalls, stopped,
                   iteration, max_iterations, gwCalls, histStart, prevResult, messages, chatResult, agent>>

\* response = await self._receive_response(), then lines 129-134
ToolRecv ==
    /\ pc = "tool_recv"
    /\ \/ /\ LineReady
          /\ stdout' = Tail(stdout)
          /\ IF Head(stdout).kind = "garbage"
             THEN CallToolDone("raised", "JSONDecodeError", Head(stdout))
             ELSE CallToolDone(CallToolOutcome(Head(stdout)).outcome,
                               CallToolOutcome(Head(stdout)).exc, Head(stdout))
       \/ /\ AtEof
          /\ CallToolDone(CallToolOutcome(NoLine).outcome, CallToolOutcome(NoLine).exc, NoLine)
          /\ UNCHANGED stdout
    /\ UNCHANGED <<hostVars, clientVars, child, stdin, countVars,
                   iteration, max_iterations, gwCalls, toolCalls, histStart, prevResult, messages, chatResult,
                   agent>>

\* The main task is cancelled while call_tool waits for its line (SIGINT
\* during the wait, or a cancellation that asyncio.run requested on a SIGINT
\* during blocking code and that takes effect at this await).
\* CancelledError is no Exception: neither chat() nor the turn loop of main
\* catches it.
ToolCancelled ==
    /\ mode = "main"
    /\ pc = "tool_recv"
    /\ pc' = Finally
    /\ exitCause' = "cancelled"
    /\ chatResult' = "interrupted"
    /\ lastOp' = Op("call_tool", "raised", "CancelledError", CallToolRequestId, NoLine)
    /\ UNCHANGED <<mode, turns, budget, apiCalls, clientVars, pipeVars, countVars,
                   iteration, max_iterations, response_text, tool_call, gwCalls, toolCalls,
                   histStart, prevResult, messages, agentVars>>

\* KeyboardInterrupt raised in the main thread while call_tool runs between
\* the write of its request and the suspension in readline() (the default
\* SIGINT handler of Python raises it at the next bytecode; under the
\* handler of asyncio.run a second SIGINT does).  It is no Exception, so
\* chat() lets it through; main catches it at line 83 and goes on to the
\* next prompt.  The request stays written and its response unread.
ToolInterrupted ==
    /\ mode = "main"
    /\ pc = "tool_recv"
    /\ pc' = "prompt"
    /\ chatResult' = "interrupted"
    /\ response_text' = <<>>
    /\ tool_call' = NoToolCall
    /\ lastOp' = Op("call_tool", "raised", "KeyboardInterrupt", CallToolRequestId, NoLine)
    /\ UNCHANGED <<hostVars, clientVars, pipeVars, countVars, iteration, max_iterations,
                   gwCalls, toolCalls, histStart, prevResult, messages, agentVars>>

(***************************************************************************)
(* OllamaAgent.chat                                                        *)
(***************************************************************************)
\* line 150: the user message is appended to the history the earlier turns
\* have left
HistoryRestarted(h) == <<UserMessage>>
HistoryAfterUserMessage(h) == Append(h, UserMessage)

\* lines 150-152: the user message is appended, iteration = 0
ChatStart(n) ==
    /\ mode = "main"
    /\ pc = "prompt"
    /\ turns < MaxTurns
    /\ budget + n <= MaxBudget
    /\ turns' = turns + 1
    /\ budget' = budget + n
    /\ max_iterations' = n
    /\ iteration' = 0
    /\ histStart' = Len(conversation_history)
    /\ prevResult' = chatResult
    /\ messages' = <<>>
    /\ conversation_history' = HistoryAfterUserMessage(conversation_history)
    /\ gwCalls' = 0
    /\ toolCalls' = 0
    /\ chatResult' = "running"
    /\ pc' = "loop"
    /\ UNCHANGED <<mode, exitCause, apiCalls, clientVars, pipeVars, countVars,
                   response_text, tool_call, agent, lastOp>>

\* line 154: while iteration < max_iterations
LoopContinuesInclusive(it, ceiling) == it <= ceiling
LoopContinues(it, ceiling) == it < ceiling

\* line 230: the notice is returned to the caller, the history is left as
\* it is
HistoryWithNotice(h) == Append(h, Entry("assistant", "notice", "", 0))
HistoryAfterBudget(h) == h

\* lines 159-161: messages = [system message] + self.conversation_history
SystemMessage == Entry("system", "system_prompt", "", 0)
TranscriptOfLastMessage(h) == <<SystemMessage, h[Len(h)]>>
Transcript(h) == <<SystemMessage>> \o h

\* the loop test, then iteration += 1 (line 155) and the transcript of
\* lines 159-161, or the notice of line 230
ChatLoop ==
    /\ pc = "loop"
    /\ IF LoopContinues(iteration, max_iterations)
       THEN /\ iteration' = iteration + 1
            /\ messages' = Transcript(conversation_history)
            /\ pc' = "gateway"
            /\ UNCHANGED <<chatResult, conversation_history>>
       ELSE /\ chatResult' = "budget"
            /\ conversation_history' = HistoryAfterBudget(conversation_history)
            /\ pc' = "prompt"
            /\ UNCHANGED <<iteration, messages>>
    /\ UNCHANGED <<hostVars, clientVars, pipeVars, countVars, max_iterations,
                   response_text, tool_call, gwCalls, toolCalls, histStart, prevResult,
                   agent, lastOp>>

\* lines 164-171 and 214-228: the gateway is given the transcript and
\* answers with a text (the transcript is dead once the call is over, and
\* the locals of chat() are gone when it returns)
CallOllama(text) ==
    /\ pc = "gateway"
    /\ gwCalls' = gwCalls + 1
    /\ messages' = <<>>
    /\ IF ~TryParseToolCall(text).none
       THEN /\ response_text' = text
            /\ tool_call' = TryParseToolCall(text)
            /\ pc' = "tool_send"
            /\ UNCHANGED <<conversation_history, chatResult>>
       ELSE /\ response_text' = <<>>
            /\ tool_call' = NoToolCall
            /\ conversation_history' = Append(conversation_history, FinalAnswer)
            /\ chatResult' = "final"
            /\ pc' = "prompt"
    /\ UNCHANGED <<hostVars, clientVars, pipeVars, countVars, iteration, max_iterations,
                   toolCalls, histStart, prevResult, agent, lastOp>>

\* main, lines 86-87: an Exception that leaves chat() is printed and the
\* turn loop goes on to the next prompt
AfterGatewayRaiseRetries == "gateway"
AfterGatewayRaise == "prompt"

\* resp.raise_for_status() raises: out of chat(), caught at main line 86
CallOllamaFails ==
    /\ pc = "gateway"
    /\ gwCalls' = gwCalls + 1
    /\ chatResult' = "raised"
    /\ messages' = <<>>
    /\ pc' = AfterGatewayRaise
    /\ UNCHANGED <<hostVars, clientVars, pipeVars, countVars, iteration, max_iterations,
                   response_text, tool_call, toolCalls, histStart, prevResult, agentVars, lastOp>>

\* KeyboardInterrupt raised inside the blocking requests.post: out of
\* chat(), caught at main line 83
CallOllamaInterrupted ==
    /\ pc = "gateway"
    /\ gwCalls' = gwCalls + 1
    /\ chatResult' = "interrupted"
    /\ messages' = <<>>
    /\ pc' = "prompt"
    /\ UNCHANGED <<hostVars, clientVars, pipeVars, countVars, iteration, max_iterations,
                   response_text, tool_call, toolCalls, histStart, prevResult, agentVars, lastOp>>

(***************************************************************************)
(* MCPClient.stop                                                          *)
(***************************************************************************)
\* if self.process:
StopGuard == process # "None"

\* stop() up to its await: terminate() when the guard holds
StopBegin ==
    /\ pc = "stop"
    /\ stopCalls' = stopCalls + 1
    /\ IF ~StopGuard
       THEN /\ pc' = Ret("done")
            /\ lastOp' = Op("stop", "returned", "", WrongId, NoLine)
            /\ UNCHANGED terminateCalls
       ELSE /\ terminateCalls' = terminateCalls + 1
            /\ \/ /\ pc' = "wait"
                  /\ lastOp' = Op("stop", "running", "", WrongId, NoLine)
               \/ \* the transport has already dropped the exited process
                  /\ child = "exited"
                  /\ pc' = Ret("done")
                  /\ lastOp' = Op("stop", "raised", "ProcessLookupError", WrongId, NoLine)
    /\ UNCHANGED <<hostVars, clientVars, pipeVars, issued, stopped, chatVars, agentVars>>

\* await self.process.wait() returns: the child has exited
StopWait ==
    /\ pc = "wait"
    /\ child' = "exited"
    /\ stdin' = <<>>
    /\ stopped' = TRUE
    /\ pc' = Ret("done")
    /\ lastOp' = Op("stop", "returned", "", WrongId, NoLine)
    /\ UNCHANGED <<hostVars, clientVars, stdout, issued, terminateCalls, stopCalls,
                   chatVars, agentVars>>

\* the cancellation of the main task reaches it inside wait()
StopWaitCancelled ==
    /\ mode = "main"
    /\ pc = "wait"
    /\ pc' = "done"
    /\ lastOp' = Op("stop", "raised", "CancelledError", WrongId, NoLine)
    /\ UNCHANGED <<hostVars, clientVars, pipeVars, countVars, chatVars, agentVars>>

(***************************************************************************)
(* main                                                                    *)
(***************************************************************************)
\* lines 52-64: the catalog is shown and the agent constructed
HostTools ==
    /\ mode = "main"
    /\ pc = "tools"
    /\ lastCatalog' = GetToolsSchema(tools)
    /\ lastOp' = Op("get_tools_schema", "returned", "", WrongId, NoLine)
    /\ agent' = TRUE
    /\ conversation_history' = <<>>
    /\ pc' = "prompt"
    /\ UNCHANGED <<hostVars, process, tools, initStatus, declared, pipeVars, countVars,
                   chatVars>>

\* lines 73-75: an exit keyword
PromptExit ==
    /\ mode = "main"
    /\ pc = "prompt"
    /\ pc' = Finally
    /\ exitCause' = "exit"
    /\ UNCHANGED <<mode, turns, budget, apiCalls, clientVars, pipeVars, countVars,
                   chatVars, agentVars, lastOp>>

\* (An empty input line, and a KeyboardInterrupt raised inside Prompt.ask,
\* change nothing: lines 78 and 83-85.)

(***************************************************************************)
(* The test of SpecClient: any method, in any order.                       *)
(***************************************************************************)
ApiCall(p) ==
    /\ mode = "api"
    /\ pc = "idle"
    /\ apiCalls < MaxApiCalls
    /\ apiCalls' = apiCalls + 1
    /\ pc' = p
    /\ UNCHANGED <<mode, exitCause, turns, budget, clientVars, pipeVars, countVars,
                   chatVars, agentVars, lastOp>>

ApiStart == process = "None" /\ ApiCall("start")
ApiCallTool == ApiCall("tool_send")
ApiStop == ApiCall("stop")
ApiGetTools ==
    /\ mode = "api"
    /\ pc = "idle"
    /\ apiCalls < MaxApiCalls
    /\ apiCalls' = apiCalls + 1
    /\ lastCatalog' = GetToolsSchema(tools)
    /\ lastOp' = Op("get_tools_schema", "returned", "", WrongId, NoLine)
    /\ UNCHANGED <<pc, mode, exitCause, turns, budget, process, tools, initStatus,
                   declared, pipeVars, countVars, chatVars, agentVars>>

(***************************************************************************)
(* Specifications.                                                         *)
(***************************************************************************)
ClientSteps ==
    \/ Spawn
    \/ SpawnFails
    \/ InitSend(1)
    \/ InitSend(2)
    \/ InitRecv1
    \/ InitRecv2
    \/ ToolSend
    \/ ToolRecv
    \/ StopBegin
    \/ StopWait
    \/ ServerRespond
    \/ ServerExit

Next ==
    \/ ClientSteps
    \/ InitCancelled
    \/ ToolCancelled
    \/ ToolInterrupted
    \/ StopWaitCancelled
    \/ HostTools
    \/ PromptExit
    \/ \E n \in 0..MaxIter : ChatStart(n)
    \/ ChatLoop
    \/ \E text \in GatewayTexts : CallOllama(text)
    \/ CallOllamaFails
    \/ CallOllamaInterrupted

NextClient ==
    \/ ClientSteps
    \/ ApiStart
    \/ ApiCallTool
    \/ ApiStop
    \/ ApiGetTools

Spec == Init /\ [][Next]_vars
SpecClient == InitClient /\ [][NextClient]_vars

(***************************************************************************)
(* SpecLive: the program under the scheduling chat() relies on.  The event *)
(* loop runs the main task whenever it can go on, so every step of chat()  *)
(* and call_tool that is ready is taken; the blocking gateway call comes   *)
(* back with a text, an HTTP error or an interrupt; the child answers the  *)
(* request it holds or exits.  Nothing obliges the user to type or to      *)
(* interrupt, nor the child to exit.                                       *)
(***************************************************************************)
GatewayStep ==
    \/ \E text \in GatewayTexts : CallOllama(text)
    \/ CallOllamaFails
    \/ CallOllamaInterrupted
ChildStep == ServerRespond \/ ServerExit

Fairness ==
    /\ WF_vars(ChatLoop)
    /\ WF_vars(GatewayStep)
    /\ WF_vars(ToolSend)
    /\ WF_vars(ToolRecv)
    /\ WF_vars(ChildStep)

SpecLive == Init /\ [][Next]_vars /\ Fairness

(***************************************************************************)
(* SpecParse: _try_parse_tool_call on every text of a bounded set.         *)
(***************************************************************************)
SeqsUpTo(S, n) == UNION {[1..k -> S] : k \in 0..n}

\* JSON objects longer than MaxLen, and what may stand around them
LongCores ==
    {<<LB, KT, SX, COMMA, KA, LB, RB, RB>>,
     <<LB, KT, SX, COMMA, KA, SX, RB>>,
     <<LB, KA, LB, RB, COMMA, KT, SX, RB>>,
     <<LB, KT, SX, COMMA, KA, LB, KA, SX, RB, RB>>,
     <<LB, KT, SX, COMMA, KA, LB, RB, COMMA, KA, SX, RB>>,
     <<LB, KT, SX, COMMA, KA, SX, COMMA, KA, LB, RB, RB>>,
     <<LB, KA, LB, KT, SX, RB, RB>>,
     <<LB, KT, LB, KA, SX, RB, RB>>,
     <<LB, KT, SX, WS, COMMA, WS, KA, WS, LB, WS, RB, WS, RB>>,
     <<LB, KT, SX, COMMA, KA, LB, RB, COMMA, RB>>,
     <<LB, KT, SX, KA, LB, RB, RB>>}
Wraps == {<<>>, <<WS>>, <<WORD, WS>>, <<WS, WORD>>, <<LB>>, <<RB>>, <<RB, WORD>>, <<SX>>}
Texts ==
    SeqsUpTo(Alphabet, MaxLen)
        \cup {pre \o core \o post : pre \in Wraps, core \in LongCores, post \in Wraps}
        \cup GatewayTexts

InitParse == \E text \in Texts : InitState("parse", "parse", text)

\* tool_call = self._try_parse_tool_call(response_text)
ParseText ==
    /\ mode = "parse"
    /\ pc = "parse"
    /\ tool_call' = TryParseToolCall(response_text)
    /\ pc' = "parsed"
    /\ UNCHANGED <<hostVars, clientVars, pipeVars, countVars, iteration, max_iterations,
                   response_text, gwCalls, toolCalls, histStart, prevResult, messages, chatResult, agentVars,
                   lastOp>>

NextParse == ParseText
SpecParse == InitParse /\ [][NextParse]_vars

(***************************************************************************)
(* What the claims read off a state.                                       *)
(***************************************************************************)
\* the entries the current (or last) chat() call has appended
TurnEntries ==
    SubSeq(conversation_history, histStart + 1, Len(conversation_history))
CountKind(es, k) == Cardinality({i \in 1..Len(es) : es[i].kind = k})
\* tool calls of the turn whose outcome the loop has folded into the history
ToolOutcomes == CountKind(TurnEntries, "tool_result") + CountKind(TurnEntries, "tool_error")
\* chat() has been called and has ended
ChatEnded == chatResult \in {"final", "budget", "raised", "interrupted"}
\* the last line read was a JSON object, so it carries an id (or none at all)
ReadAnObject(op) == op.resp.kind \in {"result", "error", "neither"}

(***************************************************************************)
(* C1.  Within one session the id of each tools/call request is strictly   *)
(* greater than every id issued before it (1 and 2 of the handshake and    *)
(* tools/list included), so no two requests share an id.                   *)
(* Stated over the ids written to the child, in order.                     *)
(***************************************************************************)
C1_RequestIdsIncrease ==
    \A i, j \in 1..Len(issued) : i < j => IdLess(issued[i], issued[j])

(***************************************************************************)
(* C2.  Whenever the line read as the response to a request carries an id  *)
(* different from the id of the request just sent, the operation           *)
(* (initialize or call_tool) fails with a protocol error: the line is      *)
(* neither returned as the result nor silently ignored.                    *)
(***************************************************************************)
C2_MismatchedIdIsProtocolError ==
    (/\ lastOp.op \in {"start", "call_tool"}
     /\ ReadAnObject(lastOp)
     /\ lastOp.resp.id # lastOp.reqId)
        => (lastOp.outcome = "raised" /\ lastOp.exc = "ProtocolError")

(***************************************************************************)
(* C3.  One chat call never makes more gateway calls than its ceiling N    *)
(* nor more tool invocations than gateway calls; and when every gateway    *)
(* call of the turn returned a valid tool call, chat ends with the         *)
(* budget-exceeded notice after exactly N gateway calls and exactly N tool *)
(* invocations.                                                            *)
(***************************************************************************)
C3_BudgetBoundsCalls ==
    mode = "main" =>
        /\ gwCalls <= max_iterations
        /\ toolCalls <= gwCalls
        /\ (ChatEnded /\ ToolOutcomes = gwCalls) =>
              (/\ chatResult = "budget"
               /\ gwCalls = max_iterations
               /\ toolCalls = max_iterations)
        /\ chatResult = "budget" => ToolOutcomes = max_iterations

\* a chat with ceiling MaxIter ran out of budget after MaxIter tool calls
C3_Witness ==
    /\ chatResult = "budget"
    /\ max_iterations = MaxIter
    /\ MaxIter >= 2
    /\ toolCalls = MaxIter
    /\ gwCalls = MaxIter

(***************************************************************************)
(* C4.  When the gateway returns k tool calls, none of which fails, and    *)
(* then a plain-text answer, chat returns that answer after exactly k+1    *)
(* gateway calls and k tool invocations, and the history has grown by      *)
(* exactly 2k+2 entries: the user message, then per tool call the          *)
(* assistant announcement and the user-role tool result, then the          *)
(* assistant final answer (4 entries for k = 1).                           *)
(***************************************************************************)
HappyShape(es, k) ==
    /\ Len(es) = 2 * k + 2
    /\ es[1] = UserMessage
    /\ \A i \in 1..k :
          /\ es[2 * i] = Announcement
          /\ es[2 * i + 1].role = "user"
          /\ es[2 * i + 1].kind = "tool_result"
    /\ es[2 * k + 2] = FinalAnswer

C4_HappyPathHistory ==
    (/\ mode = "main"
     /\ chatResult = "final"
     /\ CountKind(TurnEntries, "tool_error") = 0)
        => (/\ gwCalls = toolCalls + 1
            /\ toolCalls < max_iterations
            /\ HappyShape(TurnEntries, toolCalls))

\* one tool call that returned a result, then the final answer: 4 entries
C4_Witness ==
    /\ chatResult = "final"
    /\ toolCalls = 1
    /\ gwCalls = 2
    /\ Len(TurnEntries) = 4
    /\ TurnEntries[3].ref > 0

(***************************************************************************)
(* C5.  A tools/call response that carries an error field makes call_tool  *)
(* raise a tool error carrying that payload; the agent loop catches it,    *)
(* appends one assistant-role entry describing the error, and goes on to   *)
(* the next iteration (another gateway call if the budget allows): the     *)
(* turn neither ends nor aborts there.                                     *)
(***************************************************************************)
\* the step in which call_tool reads an error line
ReadsErrorLine ==
    /\ mode = "main"
    /\ pc = "tool_recv"
    /\ stdout # <<>>
    /\ Head(stdout).kind = "error"
    /\ stdout' = Tail(stdout)

C5_ToolErrorIsFolded ==
    [][/\ ReadsErrorLine =>
            /\ lastOp' = Op("call_tool", "raised", "ToolError", CallToolRequestId,
                            Head(stdout))
            /\ conversation_history' =
                  Append(conversation_history,
                         Entry("assistant", "tool_error", "ToolError", Head(stdout).req))
            /\ pc' = "loop"
            /\ chatResult' = "running"
       /\ (pc = "loop" /\ pc' # pc /\ iteration < max_iterations) => pc' = "gateway"
      ]_vars

\* after a tool error the loop is at the gateway call of the next iteration
C5_Witness ==
    /\ pc = "gateway"
    /\ iteration = 2
    /\ Len(TurnEntries) = 2
    /\ TurnEntries[2].kind = "tool_error"
    /\ TurnEntries[2].exc = "ToolError"
    /\ TurnEntries[2].ref > 0

(***************************************************************************)
(* C6.  Tool-call extraction returns a request if and only if the text has *)
(* a first "{" strictly before its last "}", the substring between them    *)
(* (inclusive) is a JSON object, the object has a tool_name key, and its   *)
(* arguments key is absent (the arguments are then the empty object) or    *)
(* an object; in every other case it returns none.                         *)
(*                                                                         *)
(* The right-hand side is stated on the text alone, without the parser:    *)
(* a token text is a JSON value iff the rewriting                          *)
(*     "x" -> V    {} -> V    key V -> M    M , M -> M    { M } -> V       *)
(* takes it to the single symbol V; the keys of the object are the key     *)
(* tokens at brace depth 1, the last occurrence of a key deciding.         *)
(***************************************************************************)
NoWs(t) == SelectSeq(t, LAMBDA x : x # WS)
Least(S) == CHOOSE x \in S : \A y \in S : x <= y
Greatest(S) == CHOOSE x \in S : \A y \in S : x >= y
Splice(t, i, n, sym) == SubSeq(t, 1, i - 1) \o <<sym>> \o SubSeq(t, i + n, Len(t))

RECURSIVE Reduce(_)
Reduce(t) ==
    LET n == Len(t)
        strs == {i \in 1..n : t[i] = SX}
        empties == {i \in 1..(n-1) : t[i] = LB /\ t[i+1] = RB}
        pairs == {i \in 1..(n-1) : t[i] \in {KT, KA} /\ t[i+1] = "V"}
        lists == {i \in 1..(n-2) : t[i] = "M" /\ t[i+1] = COMMA /\ t[i+2] = "M"}
        objs == {i \in 1..(n-2) : t[i] = LB /\ t[i+1] = "M" /\ t[i+2] = RB}
    IN
    IF strs # {} THEN Reduce(Splice(t, Least(strs), 1, "V"))
    ELSE IF empties # {} THEN Reduce(Splice(t, Least(empties), 2, "V"))
    ELSE IF pairs # {} THEN Reduce(Splice(t, Least(pairs), 2, "M"))
    ELSE IF lists # {} THEN Reduce(Splice(t, Least(lists), 3, "M"))
    ELSE IF objs # {} THEN Reduce(Splice(t, Least(objs), 3, "V"))
    ELSE t

IsJsonObjectText(c) == c # <<>> /\ Head(c) = LB /\ Reduce(NoWs(c)) = <<"V">>

Depth(c, i) ==
    Cardinality({k \in 1..(i-1) : c[k] = LB}) - Cardinality({k \in 1..(i-1) : c[k] = RB})
TopKeyAt(c, key) == {i \in 1..Len(c) : c[i] = key /\ Depth(c, i) = 1}
\* the value after the last top-level occurrence of the key starts an object
TopValueIsObject(c, key) ==
    LET rest == NoWs(SubSeq(c, Greatest(TopKeyAt(c, key)) + 1, Len(c)))
    IN rest # <<>> /\ Head(rest) = LB

\* the substring from the first "{" to the last "}", <<>> when there is none
Candidate(text) ==
    LET lbs == {i \in 1..Len(text) : text[i] = LB}
        rbs == {i \in 1..Len(text) : text[i] = RB}
    IN IF lbs # {} /\ rbs # {} /\ Least(lbs) < Greatest(rbs)
       THEN SubSeq(text, Least(lbs), Greatest(rbs))
       ELSE <<>>

IsToolCallText(text) ==
    LET c == Candidate(text) IN
    /\ IsJsonObjectText(c)
    /\ TopKeyAt(c, KT) # {}
    /\ TopKeyAt(c, KA) # {} => TopValueIsObject(c, KA)

C7_StopIdempotent ==
    [][/\ (pc = "stop" /\ stopped) =>
            (terminateCalls' = terminateCalls /\ lastOp'.outcome # "raised")
       /\ (pc = "stop" /\ process = "None") =>
            (terminateCalls' = terminateCalls /\ lastOp'.outcome = "returned"
             /\ child' = child)
      ]_vars

(***************************************************************************)
(* C8.  get_tools_schema on a client whose initialize has not (yet)        *)
(* succeeded fails with a NotInitialized error instead of returning a      *)
(* (possibly empty) catalog.                                               *)
(***************************************************************************)
C8_CatalogNeedsInit ==
    (lastOp.op = "get_tools_schema" /\ initStatus # "ok")
        => (lastOp.outcome = "raised" /\ lastOp.exc = "NotInitialized")

(***************************************************************************)
(* C9.  After a successful initialize the tool catalog holds exactly the   *)
(* tools the server declared in its tools/list response (same names, none  *)
(* added or dropped), and no later invoke or chat changes it: the catalog  *)
(* is written during initialization only.                                  *)
(***************************************************************************)
Names(ts) == [i \in 1..Len(ts) |-> ts[i].name]

C9_CatalogIsDeclared ==
    initStatus = "ok" =>
        /\ tools = declared
        /\ Names(GetToolsSchema(tools)) = Names(declared)
        /\ agent => Names(lastCatalog) = Names(declared)

\* two tools declared, and a turn with a tool call has gone by
C9_Witness ==
    /\ initStatus = "ok"
    /\ Len(declared) = 2
    /\ Names(lastCatalog) = <<"read_neo4j_cypher", "get_neo4j_schema">>
    /\ chatResult = "final"
    /\ toolCalls >= 1

C11_InitFailureIsFatal ==
    (mode = "main" /\ initStatus = "failed") =>
        /\ lastOp.op = "start" => lastOp.outcome = "raised"
        /\ ~agent
        /\ turns = 0
        /\ \A i \in 1..Len(issued) : issued[i].isnum

(***************************************************************************)
(* C12.  If the transport fails during call_tool (the child has exited, or *)
(* its output reaches end of stream before a response line is read),       *)
(* call_tool fails with an error: it never returns normally, with a null   *)
(* result or any other value, for that call.                               *)
(* A call that completed without a response line is one that read none.    *)
(***************************************************************************)
C12_TransportFailureRaises ==
    (lastOp.op = "call_tool" /\ lastOp.resp = NoLine) => lastOp.outcome = "raised"

(***************************************************************************)
(* C13.  A transport or protocol failure during a tool invocation inside a *)
(* turn (closed pipe, end of stream, unparseable response line) leaves     *)
(* chat and ends the program; the loop never folds it into the history as  *)
(* a recoverable tool error.  Only errors reported by the server are       *)
(* folded: every error entry of the history comes from an error response,  *)
(* and every result entry from a result response.                          *)
(***************************************************************************)
C13_OnlyServerErrorsAreFolded ==
    mode = "main" =>
        \A i \in 1..Len(conversation_history) :
            /\ conversation_history[i].kind = "tool_error" =>
                  (/\ conversation_history[i].exc = "ToolError"
                   /\ conversation_history[i].ref > 0)
            /\ conversation_history[i].kind = "tool_result" =>
                  conversation_history[i].ref > 0

(***************************************************************************)
(* C14.  For every recognized tool call the assistant-role announcement is *)
(* appended to the history before the invocation is issued, so it is there *)
(* whether the invocation succeeds or fails: while the call is under way   *)
(* the announcement is the last entry, a successful call leaves            *)
(* (announcement, result) and a failed one (announcement, error).          *)
(***************************************************************************)
C14_AnnouncementPrecedesCall ==
    mode = "main" =>
        /\ pc = "tool_recv" =>
              (/\ conversation_history # <<>>
               /\ conversation_history[Len(conversation_history)] = Announcement)
        /\ \A i \in 1..Len(conversation_history) :
              conversation_history[i].kind \in {"tool_result", "tool_error"} =>
                  (i > 1 /\ conversation_history[i - 1] = Announcement)

(***************************************************************************)
(* C15.  When the iteration ceiling is exhausted without a final answer,   *)
(* chat returns the notice without adding any history entry for it (none   *)
(* that looks like model-authored content), and the session remains        *)
(* usable: the next chat call on the same agent appends its user message   *)
(* and goes on to the gateway and the RPC client as in any other turn.     *)
(* Stated on the step that ends a turn with the notice and on the step     *)
(* that begins the turn after it.                                          *)
(***************************************************************************)
C15_BudgetNoticeLeavesSessionUsable ==
    [][/\ (chatResult = "running" /\ chatResult' = "budget") =>
            /\ conversation_history' = conversation_history
            /\ conversation_history[Len(conversation_history)].kind
                  \in {"message", "tool_result", "tool_error"}
            /\ pc' = "prompt"
            /\ UNCHANGED <<agent, process, child, tools, exitCause>>
       /\ (chatResult = "budget" /\ turns' = turns + 1) =>
            /\ conversation_history' = Append(conversation_history, UserMessage)
            /\ iteration' = 0
            /\ pc' = "loop"
       /\ (prevResult = "budget" /\ pc = "loop" /\ pc' # pc
              /\ iteration < max_iterations) =>
            pc' = "gateway"
       /\ (prevResult = "budget" /\ pc = "gateway" /\ pc' # pc
              /\ ~tool_call'.none) => pc' = "tool_send"
      ]_vars

\* the turn after a budget-exhausted one has called a tool and got its answer
C15_Witness ==
    /\ prevResult = "budget"
    /\ conversation_history[histStart].kind \in {"tool_result", "tool_error"}
    /\ chatResult = "final"
    /\ toolCalls = 1
    /\ Len(TurnEntries) = 4
    /\ TurnEntries[1] = UserMessage

(***************************************************************************)
(* C16.  A user-level interrupt that arrives while a turn is waiting on    *)
(* the gateway round trip or on the tool round trip aborts only that turn: *)
(* the program does not terminate, the child process is not stopped, and   *)
(* the host is back at its prompt, on the same session, for the next user  *)
(* message.                                                                *)
(* Stated on the step in which a running turn is interrupted.              *)
(***************************************************************************)
C16_InterruptAbortsOnlyTheTurn ==
    [][(chatResult = "running" /\ chatResult' = "interrupted") =>
            /\ pc' = "prompt"
            /\ exitCause' = ""
            /\ UNCHANGED <<agent, process, child, terminateCalls, stopCalls>>
      ]_vars

(***************************************************************************)
(* C17.  A gateway call that fails with a non-2xx status is fatal for that *)
(* call and is not retried: the failure leaves chat, no further gateway    *)
(* call and no tool invocation is made in that turn, the turn's user       *)
(* message stays in the history, and the session is there for the next     *)
(* turn.                                                                   *)
(***************************************************************************)
C17_GatewayFailureEndsTurn ==
    [][/\ (pc = "gateway" /\ chatResult' = "raised") =>
            /\ pc' = "prompt"
            /\ conversation_history' = conversation_history
            /\ conversation_history[histStart + 1] = UserMessage
            /\ gwCalls' = gwCalls + 1
            /\ UNCHANGED <<toolCalls, issued, agent, process, child, exitCause>>
       /\ (chatResult = "raised" /\ chatResult' = "raised") =>
            UNCHANGED <<gwCalls, toolCalls, issued, conversation_history>>
       /\ (chatResult = "raised" /\ turns' = turns + 1) =>
            /\ conversation_history' = Append(conversation_history, UserMessage)
            /\ iteration' = 0
            /\ pc' = "loop"
      ]_vars

\* a turn failed at the gateway and left its user message; the turn after
\* it has called a tool and ended with an answer
C17_Witness ==
    /\ prevResult = "raised"
    /\ histStart >= 1
    /\ conversation_history[histStart] = UserMessage
    /\ chatResult = "final"
    /\ toolCalls >= 1

(***************************************************************************)
(* C18.  The conversation history is append-only across any sequence of    *)
(* chat calls on one agent, whatever their outcome: every step leaves the  *)
(* existing entries unchanged as a prefix of the new history, the length   *)
(* never decreases, and each turn starts from the full history left by the *)
(* turns before it.                                                        *)
(***************************************************************************)
IsPrefix(a, b) == Len(a) <= Len(b) /\ SubSeq(b, 1, Len(a)) = a

C18_HistoryAppendOnly ==
    [][/\ IsPrefix(conversation_history, conversation_history')
       /\ Len(conversation_history') >= Len(conversation_history)
       /\ turns' = turns + 1 =>
            /\ histStart' = Len(conversation_history)
            /\ SubSeq(conversation_history', 1, histStart') = conversation_history
            /\ Len(conversation_history') = Len(conversation_history) + 1
      ]_vars

\* a second turn is under way on top of the entries of a first one that
\* called a tool
C18_Witness ==
    /\ turns = 2
    /\ histStart >= 3
    /\ conversation_history[1] = UserMessage
    /\ conversation_history[2] = Announcement
    /\ Len(TurnEntries) >= 3
    /\ TurnEntries[1] = UserMessage

(***************************************************************************)
(* C19.  In every reachable state of a session, during initialization and  *)
(* after turns aborted by an error or an interrupt included, at most one   *)
(* request has been written to the child whose response line has not yet   *)
(* been read: the client never sends a request while the response of an    *)
(* earlier one is still unread.                                            *)
(* The requests written and not read back are those the child has yet to   *)
(* answer and those whose response line waits in the pipe.                 *)
(***************************************************************************)
C19_OneOutstandingRequest ==
    mode = "main" => Len(stdin) + Len(stdout) <= 1

(***************************************************************************)
(* C20.  With a server that answers every request exactly once and in      *)
(* order, after any sequence of chat turns on one session (turns aborted   *)
(* between sending a tools/call request and reading its response           *)
(* included), every result or error that call_tool hands to the agent loop *)
(* is the response the server produced for the request sent by that same   *)
(* call, never the response to an earlier request.                         *)
(* A response line names the request it answers by that request's position *)
(* among the requests written; the request of the call that reads a line   *)
(* is the last one written.  Stated on the step in which call_tool reads   *)
(* its line.                                                               *)
(***************************************************************************)
C20_ResponseBelongsToCall ==
    [][(/\ mode = "main"
        /\ pc = "tool_recv"
        /\ stdout # <<>>
        /\ stdout' = Tail(stdout)
        /\ Head(stdout).kind \in {"result", "error"})
           => (/\ Head(stdout).req = Len(issued)
               /\ lastOp'.resp = Head(stdout))
      ]_vars

(***************************************************************************)
(* C21.  Every gateway call receives a transcript made of the one fixed    *)
(* system message followed by the entire conversation history at that      *)
(* moment, in order; hence the outcome (result or error entry) of the tool *)
(* call of iteration i is already in the transcript of the gateway call of *)
(* iteration i+1, gateway and tool round trips strictly alternate, and the *)
(* system message itself is never appended to the history.                 *)
(* Stated on the step that makes a gateway call and on the step that       *)
(* begins a tool invocation.                                               *)
(***************************************************************************)
GatewayCalled == mode = "main" /\ pc = "gateway" /\ gwCalls' = gwCalls + 1
ToolInvoked == mode = "main" /\ pc = "tool_send" /\ toolCalls' = toolCalls + 1

C21_TranscriptIsSystemPlusHistory ==
    [][/\ GatewayCalled =>
            /\ messages # <<>>
            /\ Head(messages) = SystemMessage
            /\ Tail(messages) = conversation_history
            /\ \A i \in 2..Len(messages) : messages[i].role # "system"
            /\ gwCalls = iteration - 1
            /\ toolCalls = gwCalls
            /\ ToolOutcomes = toolCalls
            /\ iteration >= 2 =>
                  messages[Len(messages)].kind \in {"tool_result", "tool_error"}
       /\ ToolInvoked => gwCalls = toolCalls + 1
       /\ \A i \in 1..Len(conversation_history') :
             conversation_history'[i].role \in {"user", "assistant"}
      ]_vars

\* the gateway call of iteration 2 is about to be made with the system
\* message, the user message and the announcement and result of iteration 1
C21_Witness ==
    /\ pc = "gateway"
    /\ iteration = 2
    /\ Len(messages) = 4
    /\ messages[1] = SystemMessage
    /\ messages[2] = UserMessage
    /\ messages[3] = Announcement
    /\ messages[4].kind = "tool_result"
    /\ messages[4].ref > 0
    /\ Tail(messages) = conversation_history

(***************************************************************************)
(* C22.  Assuming every gateway call eventually answers or fails and every *)
(* request to the child is eventually answered or its output stream ends,  *)
(* every chat call eventually terminates (it returns a final answer,       *)
(* returns the budget notice, or an exception or interrupt leaves it),     *)
(* whether the model answers in plain text, asks for a tool the catalog    *)
(* does not have, causes a tool error on every iteration, or asks for      *)
(* tools on every iteration.                                               *)
(***************************************************************************)
C22_ChatTerminates == (chatResult = "running") ~> ChatEnded

\* a turn in which every iteration asked for a tool and got a tool error
\* has ended with the budget notice
C22_Witness ==
    /\ chatResult = "budget"
    /\ max_iterations = MaxIter
    /\ iteration = MaxIter
    /\ Len(TurnEntries) = MaxIter + 1
    /\ \A i \in 2..Len(TurnEntries) :
          TurnEntries[i].kind = "tool_error" /\ TurnEntries[i].exc = "ToolError"

====
